---- MODULE Spec2Model ----
(***************************************************************************)
(* Model of the tdlib client runtime generated from the templates          *)
(*   src/template/telegram-tdlib/client/client.rs  (Client::start, the     *)
(*       dispatch loop, the auth task, handle_auth_state)                  *)
(*   src/template/rust-tdlib/client/client.rs      (the generated API      *)
(*       call, ClientBuilder, wait_for_auth)                               *)
(* The global OBSERVER (client/observer.rs) is not among the sources; it   *)
(* is modelled from the specification's Correlator contract (4.1).         *)
(***************************************************************************)
EXTENDS Naturals, Sequences, FiniteSets, TLC

(* ------------------------------ bounds -------------------------------- *)
\* number of user calls of the generated API
MaxCalls == 2
\* number of Client::start invocations (on the client or its clones)
MaxStarts == 2
\* number of frames receive() yields in a run with a free transport
MaxFrames == 2
\* capacity the owner gave the updates channel
SinkCap == 1

(* ------------------------- program constants -------------------------- *)
\* mpsc::channel::<()>(3)
ReadyChanCap == 3
\* mpsc::channel::<UpdateAuthorizationState>(10)
AuthChanCap == 10
\* let (auth_state_sender, auth_state_receiver) = mpsc::channel(10)
AuthStateChanCap == 10

(* ------------------------------ values -------------------------------- *)
NoExtra == "none"
Tokens == {"X", "Y"}
UserCalls == 1 .. MaxCalls
Starts == 1 .. MaxStarts
AuthCall(i) == MaxCalls + i
CallIds == 1 .. (MaxCalls + MaxStarts)

NoFrame == [type |-> "none", extra |-> NoExtra, arg |-> "none"]
NoReq == [name |-> "none", extra |-> NoExtra, arg |-> "none"]
NoRes == [kind |-> "none", arg |-> "none"]

\* @type of a JSON frame -> variant of TdType (serde tag / rtd_enum_deserialize)
TypeTag ==
  [ chats |-> "Chats", error |-> "Error", ok |-> "Ok",
    updateOption |-> "UpdateOption",
    updateAuthorizationState |-> "UpdateAuthorizationState" ]

\* from_json::<TdType>(&json): Err for a frame whose @type names no variant
from_json(json) ==
  IF json.type \in DOMAIN TypeTag
    THEN [ok |-> TRUE, t |-> [type |-> TypeTag[json.type], extra |-> json.extra, arg |-> json.arg]]
    ELSE [ok |-> FALSE, t |-> NoFrame]

\* RObject::extra of a decoded value
extra(t) == t.extra

\* the response variant a generated function expects ({{token.blood}})
Blood(name) == IF name = "searchPublicChats" THEN "Chats" ELSE "Ok"

(* ------------------------------- state -------------------------------- *)
VARIABLES
  stop_flag,       \* Client.stop_flag: Arc<Mutex<bool>>
  updates_sender,  \* Client.updates_sender is Some(_)
  tmpl,            \* the template the client was generated from
  builder,         \* the ClientBuilder: its fields and what build() returned
  channels,        \* OBSERVER's registry: set of <<token, call>> registrations
  signal,          \* per call: the PendingSlot returned by OBSERVER.subscribe
  fulfilled,       \* per call: how many frames notify put into its slot
  callPc,          \* per call: position inside the generated API function
  callReq,         \* per call: the request (name, @extra, argument)
  callRes,         \* per call: the RTDResult the function returned
  sent,            \* requests handed to raw_api.send, in order
  replies,         \* tokens of sent requests tdlib has not answered yet
  loopPc,          \* per start: position of the dispatch task
  loopFrame,       \* per start: the json the dispatch task holds
  nrecv,           \* frames receive() has yielded
  unsol,           \* authorization updates tdlib has emitted from its script
  fed,             \* history: the updates receive() yielded, in order (kept
                   \* where the order of routing is examined)
  auth_q,          \* per start: auth_sx/auth_rx channel contents
  authPc,          \* per start: position of the auth task
  authCur,         \* per start: the authorization state being handled
  ready_q,         \* per start: the () queued on start()'s sx/rx channel
  auth_state_q,    \* Client.auth_state_sender/receiver channel contents
  startPc,         \* per start: position of Client::start
  readySeen,       \* history, per start: times the Ready arm has run
  wfa,             \* position and results of Client::wait_for_auth
  lateRecv,        \* per start: receive() calls issued while stop_flag was set
  unsubbed,        \* history: tokens OBSERVER.unsubscribe has been called with
  stale,           \* history, per start: the held frame's token was in unsubbed
                   \* when receive() yielded it
  sink             \* the owner's updates channel contents

vars == << stop_flag, updates_sender, tmpl, builder, wfa, auth_state_q, readySeen, channels, signal, fulfilled, callPc, callReq,
           callRes, sent, replies, loopPc, loopFrame, nrecv, unsol, fed, auth_q, authPc,
           authCur, ready_q, startPc, lateRecv, unsubbed, stale, sink >>

callVars == << channels, signal, fulfilled, callPc, callReq, callRes, sent, replies,
               unsubbed >>
loopVars == << loopPc, loopFrame, nrecv, unsol, fed, lateRecv, stale >>
authVars == << auth_q, authPc, authCur, ready_q, startPc, readySeen, wfa, auth_state_q >>
cfgVars == << updates_sender, tmpl, builder >>

NoSlot == [st |-> "none", frame |-> NoFrame]

\* telegram-tdlib: start() waits for Ready on its own channel;
\* rust-tdlib: the client keeps a ClientState channel for wait_for_auth
Templates == {"telegram-tdlib", "rust-tdlib"}

\* impl Default for ClientBuilder: nothing set, build() not called yet
ClientBuilderDefault ==
  [updates_sender |-> FALSE, tdlib_parameters |-> FALSE, result |-> "none"]

\* Client::new (stop_flag false, updates_sender None) followed by an optional
\* set_updates_sender; nothing is started and no call has been made
Init ==
  /\ stop_flag = FALSE
  /\ updates_sender \in BOOLEAN
  /\ tmpl \in Templates
  /\ builder = ClientBuilderDefault
  /\ wfa = [pc |-> "idle", ret |-> "none", handle |-> "none"]
  /\ auth_state_q = << >>
  /\ readySeen = [i \in Starts |-> 0]
  /\ channels = {}
  /\ signal = [c \in CallIds |-> NoSlot]
  /\ fulfilled = [c \in CallIds |-> 0]
  /\ callPc = [c \in CallIds |-> "idle"]
  /\ callReq = [c \in CallIds |-> NoReq]
  /\ callRes = [c \in CallIds |-> NoRes]
  /\ sent = << >>
  /\ replies = {}
  /\ loopPc = [i \in Starts |-> "none"]
  /\ loopFrame = [i \in Starts |-> NoFrame]
  /\ nrecv = 0
  /\ unsol = 0
  /\ fed = << >>
  /\ auth_q = [i \in Starts |-> << >>]
  /\ authPc = [i \in Starts |-> "none"]
  /\ authCur = [i \in Starts |-> "none"]
  /\ ready_q = [i \in Starts |-> << >>]
  /\ startPc = [i \in Starts |-> "none"]
  /\ lateRecv = [i \in Starts |-> 0]
  /\ unsubbed = {}
  /\ stale = [i \in Starts |-> FALSE]
  /\ sink = << >>

(* ------------------- OBSERVER (Correlator, spec 4.1) ------------------ *)
Registered(t) == {c \in CallIds : <<t, c>> \in channels}

\* subscribe(token): registers a PendingSlot for call c; fails with
\* AlreadySubscribed, leaving the registry alone, if the token is registered
subscribe(c, t) ==
  IF Registered(t) = {}
    THEN /\ channels' = channels \cup {<<t, c>>}
         /\ signal' = [signal EXCEPT ![c] = [st |-> "pending", frame |-> NoFrame]]
    ELSE /\ channels' = channels
         /\ signal' = [signal EXCEPT ![c] = [st |-> "AlreadySubscribed", frame |-> NoFrame]]

\* notify(frame) consumes the frame: its token matches a registration
Matched(t) == extra(t) /= NoExtra /\ Registered(extra(t)) /= {}

\* a notify that fulfils the slot and leaves the registration in the registry
notifyKeepsEntry(t) ==
  /\ signal' = [c \in CallIds |->
        IF c \in Registered(extra(t)) /\ signal[c].st /= "dropped"
          THEN [st |-> "ok", frame |-> t] ELSE signal[c]]
  /\ fulfilled' = [c \in CallIds |->
        IF c \in Registered(extra(t)) THEN fulfilled[c] + 1 ELSE fulfilled[c]]
  /\ channels' = channels

\* notify(frame) on a match: fulfils the registered slot and gives up the entry
\* (a slot whose reader was dropped keeps nothing: the frame is lost with it)
notify(t) ==
  /\ signal' = [c \in CallIds |->
        IF c \in Registered(extra(t)) /\ signal[c].st /= "dropped"
          THEN [st |-> "ok", frame |-> t] ELSE signal[c]]
  /\ fulfilled' = [c \in CallIds |->
        IF c \in Registered(extra(t)) THEN fulfilled[c] + 1 ELSE fulfilled[c]]
  /\ channels' = {r \in channels : r[1] /= extra(t)}

\* the slots after unsubscribe(token): a slot whose registration is removed
\* before it was fulfilled resolves as cancelled
unsubscribeSlots(t, sig) ==
  [c \in CallIds |->
     IF c \in Registered(t) /\ sig[c].st = "pending"
       THEN [st |-> "Cancelled", frame |-> NoFrame] ELSE sig[c]]

\* the registry after unsubscribe(token): a no-op on an absent token
unsubscribeRegistry(t) == {r \in channels : r[1] /= t}

(* --------------- the generated API function (rust-tdlib) -------------- *)
\* the match without its TdType::Error arm
CallResultNoErrorArm(name, sig) ==
  IF sig.st /= "ok"
    THEN [kind |-> "Internal", arg |-> "receiver already closed"]
    ELSE IF sig.frame.type = Blood(name)
      THEN [kind |-> "Ok", arg |-> sig.frame.arg]
      ELSE [kind |-> "Internal", arg |-> "receive invalid response"]

\* match received { ... }: the RTDResult of the call
CallResult(name, sig) ==
  IF sig.st /= "ok"
    THEN [kind |-> "Internal", arg |-> "receiver already closed"]
    ELSE IF sig.frame.type = Blood(name)
      THEN [kind |-> "Ok", arg |-> sig.frame.arg]
      ELSE IF sig.frame.type = "Error"
        THEN [kind |-> "TdlibError", arg |-> sig.frame.arg]
        ELSE [kind |-> "Internal", arg |-> "receive invalid response"]

\* a call that takes its slot but leaves the registration for after the send
CallSubscribeAfterSend(c, req) ==
  /\ callPc[c] = "idle"
  /\ callReq' = [callReq EXCEPT ![c] = req]
  /\ IF req.extra = NoExtra
       THEN /\ callPc' = [callPc EXCEPT ![c] = "done"]
            /\ callRes' = [callRes EXCEPT ![c] =
                 [kind |-> "Internal", arg |-> "not have extra field"]]
            /\ UNCHANGED << channels, signal, fulfilled >>
       ELSE /\ channels' = channels
            /\ signal' = [signal EXCEPT ![c] = [st |-> "pending", frame |-> NoFrame]]
            /\ fulfilled' = [fulfilled EXCEPT ![c] = 0]
            /\ callPc' = [callPc EXCEPT ![c] = "subscribed"]
            /\ callRes' = [callRes EXCEPT ![c] = NoRes]
  /\ UNCHANGED << sent, replies, unsubbed >>

\* let extra = req.extra().ok_or(Internal)?; let signal = OBSERVER.subscribe(&extra);
CallSubscribe(c, req) ==
  /\ callPc[c] = "idle"
  /\ callReq' = [callReq EXCEPT ![c] = req]
  /\ IF req.extra = NoExtra
       THEN /\ callPc' = [callPc EXCEPT ![c] = "done"]
            /\ callRes' = [callRes EXCEPT ![c] =
                 [kind |-> "Internal", arg |-> "not have extra field"]]
            /\ UNCHANGED << channels, signal, fulfilled >>
       ELSE /\ subscribe(c, req.extra)
            /\ fulfilled' = [fulfilled EXCEPT ![c] = 0]
            /\ callPc' = [callPc EXCEPT ![c] = "subscribed"]
            /\ callRes' = [callRes EXCEPT ![c] = NoRes]
  /\ UNCHANGED << sent, replies, unsubbed >>

\* self.raw_api.send(self.client_id, req)?;  an Err returns at once
CallSend(c, ok) ==
  /\ callPc[c] = "subscribed"
  /\ IF ok
       THEN /\ sent' = Append(sent, [name |-> callReq[c].name, arg |-> callReq[c].arg])
            /\ replies' = replies \cup {callReq[c].extra}
            /\ callPc' = [callPc EXCEPT ![c] = "awaiting"]
            /\ UNCHANGED callRes
       ELSE /\ callPc' = [callPc EXCEPT ![c] = "done"]
            /\ callRes' = [callRes EXCEPT ![c] = [kind |-> "SendError", arg |-> "to_json"]]
            /\ UNCHANGED << sent, replies >>
  /\ UNCHANGED << channels, signal, fulfilled, callReq, unsubbed >>

\* let received = signal.await; OBSERVER.unsubscribe(&extra); match received {..}
CallFinish(c) ==
  /\ callPc[c] = "awaiting"
  /\ signal[c].st /= "pending"
  /\ channels' = unsubscribeRegistry(callReq[c].extra)
  /\ signal' = unsubscribeSlots(callReq[c].extra, [signal EXCEPT ![c] = NoSlot])
  /\ callRes' = [callRes EXCEPT ![c] = CallResult(callReq[c].name, signal[c])]
  /\ callPc' = [callPc EXCEPT ![c] = "done"]
  /\ unsubbed' = unsubbed \cup {callReq[c].extra}
  /\ UNCHANGED << fulfilled, callReq, sent, replies >>

\* the caller drops the future while it is suspended in signal.await (a
\* timeout or select around the call): the rest of the function never runs
CallCancel(c) ==
  /\ callPc[c] = "awaiting"
  /\ callPc' = [callPc EXCEPT ![c] = "cancelled"]
  /\ signal' = [signal EXCEPT ![c] = [st |-> "dropped", frame |-> NoFrame]]
  /\ UNCHANGED << channels, fulfilled, callReq, callRes, sent, replies, unsubbed >>

SearchPublicChats(t) == [extra |-> t, arg |-> "q", name |-> "searchPublicChats"]
UserReqs == {SearchPublicChats(t) : t \in Tokens}

\* a user task enters client.search_public_chats(req); calls are numbered in
\* the order they are made
UserCall(c, req) ==
  /\ c \in UserCalls
  /\ \A b \in UserCalls : b < c => callPc[b] /= "idle"
  /\ CallSubscribe(c, req)
  /\ UNCHANGED << stop_flag, cfgVars, loopVars, authVars, sink >>

UserSend(c, ok) ==
  /\ c \in UserCalls
  /\ CallSend(c, ok)
  /\ UNCHANGED << stop_flag, cfgVars, loopVars, authVars, sink >>

\* any call, a user's or the auth task's, resumes from signal.await
Resume(c) ==
  /\ CallFinish(c)
  /\ UNCHANGED << stop_flag, cfgVars, loopVars, authVars, sink >>

UserCancel(c) ==
  /\ c \in UserCalls
  /\ CallCancel(c)
  /\ UNCHANGED << stop_flag, cfgVars, loopVars, authVars, sink >>

(* ------------- Client::start: the dispatch task (telegram-tdlib) ------ *)
LoopAlive(i) == loopPc[i] \notin {"none", "done", "panicked"}
AuthAlive(i) == authPc[i] \notin {"none", "done", "panicked"}

\* start(): clones the fields, creates both channels, spawns the dispatch
\* task and the auth task, then waits in rx.recv()
Start(i) ==
  /\ startPc[i] = "none"
  /\ \A j \in Starts : j < i => startPc[j] /= "none"
  /\ startPc' = [startPc EXCEPT ![i] =
       IF tmpl = "telegram-tdlib" THEN "waiting" ELSE "spawned"]
  /\ loopPc' = [loopPc EXCEPT ![i] = "check"]
  /\ authPc' = [authPc EXCEPT ![i] = "idle"]
  /\ UNCHANGED << stop_flag, cfgVars, callVars, loopFrame, nrecv, unsol, fed,
                  lateRecv, stale, auth_q, authCur, ready_q, readySeen, wfa, auth_state_q, sink >>

\* while !*stop_flag.lock().unwrap()
LoopCheck(i) ==
  /\ loopPc[i] = "check"
  /\ loopPc' = [loopPc EXCEPT ![i] = IF stop_flag THEN "done" ELSE "poll"]
  /\ UNCHANGED << stop_flag, cfgVars, callVars, loopFrame, nrecv, unsol, fed,
                  lateRecv, stale, authVars, sink >>

\* current.spawn_blocking(move || rec_api.receive(2.0)): the poll is issued
LoopPoll(i) ==
  /\ loopPc[i] = "poll"
  /\ loopPc' = [loopPc EXCEPT ![i] = "receiving"]
  /\ lateRecv' = [lateRecv EXCEPT ![i] = IF stop_flag THEN @ + 1 ELSE @]
  /\ UNCHANGED << stop_flag, cfgVars, callVars, loopFrame, nrecv, unsol, fed,
                  stale, authVars, sink >>

\* receive(2.0) returned None: nothing within the timeout
LoopTimeout(i) ==
  /\ loopPc[i] = "receiving"
  /\ loopPc' = [loopPc EXCEPT ![i] = "check"]
  /\ UNCHANGED << stop_flag, cfgVars, callVars, loopFrame, nrecv, unsol, fed,
                  lateRecv, stale, authVars, sink >>

\* receive(2.0) returned Some(json)
LoopReceive(i, json) ==
  /\ loopPc[i] = "receiving"
  /\ loopPc' = [loopPc EXCEPT ![i] = "got"]
  /\ loopFrame' = [loopFrame EXCEPT ![i] = json]
  /\ nrecv' = nrecv + 1
  /\ stale' = [stale EXCEPT ![i] = json.extra \in unsubbed]
  /\ UNCHANGED << stop_flag, cfgVars, channels, signal, fulfilled, callPc,
                  callReq, callRes, sent, unsubbed, lateRecv, authVars, sink >>

\* where an unmatched frame goes: the match on Some(t)
RouteUnmatched(t) ==
  IF t.type = "UpdateAuthorizationState" THEN "send_auth"
  ELSE IF updates_sender THEN "send_upd"
  ELSE "check"

\* match from_json::<TdType>(&json) { Ok(t) => match OBSERVER.notify(t) {..}, Err(e) => panic!() }
LoopRoute(i) ==
  /\ loopPc[i] = "got"
  /\ LET d == from_json(loopFrame[i]) IN
       IF ~d.ok
         THEN /\ loopPc' = [loopPc EXCEPT ![i] = "panicked"]
              /\ loopFrame' = [loopFrame EXCEPT ![i] = NoFrame]
              /\ UNCHANGED << channels, signal, fulfilled >>
         ELSE IF Matched(d.t)
           THEN /\ notify(d.t)
                /\ loopPc' = [loopPc EXCEPT ![i] = "check"]
                /\ loopFrame' = [loopFrame EXCEPT ![i] = NoFrame]
           ELSE /\ loopPc' = [loopPc EXCEPT ![i] = RouteUnmatched(d.t)]
                /\ loopFrame' = [loopFrame EXCEPT ![i] =
                     IF RouteUnmatched(d.t) = "check" THEN NoFrame ELSE d.t]
                /\ UNCHANGED << channels, signal, fulfilled >>
  /\ UNCHANGED << stop_flag, cfgVars, callPc, callReq, callRes, sent, replies,
                  unsubbed, nrecv, unsol, fed, lateRecv, stale, authVars, sink >>

\* a send that puts the state at the front of the queue
LoopSendAuthFront(i) ==
  /\ loopPc[i] = "send_auth"
  /\ IF ~AuthAlive(i)
       THEN /\ loopPc' = [loopPc EXCEPT ![i] = "panicked"]
            /\ UNCHANGED auth_q
       ELSE /\ Len(auth_q[i]) < AuthChanCap
            /\ auth_q' = [auth_q EXCEPT ![i] = << loopFrame[i].arg >> \o @]
            /\ loopPc' = [loopPc EXCEPT ![i] = "check"]
  /\ loopFrame' = [loopFrame EXCEPT ![i] = NoFrame]
  /\ UNCHANGED << stop_flag, cfgVars, callVars, nrecv, unsol, fed, lateRecv, stale,
                  authPc, authCur, ready_q, startPc, readySeen, wfa, auth_state_q, sink >>

\* auth_sx.send(auth_state).await.unwrap(): waits while the channel is full,
\* panics once the auth task has dropped auth_rx
LoopSendAuth(i) ==
  /\ loopPc[i] = "send_auth"
  /\ IF ~AuthAlive(i)
       THEN /\ loopPc' = [loopPc EXCEPT ![i] = "panicked"]
            /\ UNCHANGED auth_q
       ELSE /\ Len(auth_q[i]) < AuthChanCap
            /\ auth_q' = [auth_q EXCEPT ![i] = Append(@, loopFrame[i].arg)]
            /\ loopPc' = [loopPc EXCEPT ![i] = "check"]
  /\ loopFrame' = [loopFrame EXCEPT ![i] = NoFrame]
  /\ UNCHANGED << stop_flag, cfgVars, callVars, nrecv, unsol, fed, lateRecv, stale,
                  authPc, authCur, ready_q, startPc, readySeen, wfa, auth_state_q, sink >>

\* sender.send(t).await.unwrap(): waits while the owner's channel is full
LoopSendUpd(i) ==
  /\ loopPc[i] = "send_upd"
  /\ Len(sink) < SinkCap
  /\ sink' = Append(sink, loopFrame[i])
  /\ loopPc' = [loopPc EXCEPT ![i] = "check"]
  /\ loopFrame' = [loopFrame EXCEPT ![i] = NoFrame]
  /\ UNCHANGED << stop_flag, cfgVars, callVars, nrecv, unsol, fed, lateRecv, stale,
                  authVars >>

\* the owner takes the next update from its receiver
SinkRecv ==
  /\ sink /= << >>
  /\ sink' = Tail(sink)
  /\ UNCHANGED << stop_flag, cfgVars, callVars, loopVars, authVars >>

\* stop(): raises the stop signal the dispatch loop consumes (spec 4.4)
Stop ==
  /\ ~stop_flag
  /\ stop_flag' = TRUE
  /\ UNCHANGED << cfgVars, callVars, loopVars, authVars, sink >>

(* ---------------- the auth task and handle_auth_state ----------------- *)
\* arms of handle_auth_state that are todo!()
TodoStates == {"Closed", "Closing", "LoggingOut", "WaitOtherDeviceConfirmation",
               "WaitRegistration", "GetAuthorizationState"}
\* arms that ask the AuthStateHandler for a secret first
HandlerStates == {"WaitCode", "WaitEncryptionKey", "WaitPassword", "WaitPhoneNumber"}
AuthStates == TodoStates \cup HandlerStates \cup {"Ready", "WaitTdlibParameters"}

\* the arms with WaitCode answered by check_authentication_password
HandshakeReqCodeAsPassword(state) ==
  CASE state = "WaitTdlibParameters" ->
         [name |-> "setTdlibParameters", extra |-> "h-params", arg |-> "parameters"]
    [] state = "WaitEncryptionKey" ->
         [name |-> "checkDatabaseEncryptionKey", extra |-> "h-key", arg |-> "key"]
    [] state = "WaitPhoneNumber" ->
         [name |-> "setAuthenticationPhoneNumber", extra |-> "h-phone", arg |-> "phone"]
    [] state \in {"WaitCode", "WaitPassword"} ->
         [name |-> "checkAuthenticationPassword", extra |-> "h-password", arg |-> "password"]

\* the request each arm sends (its @extra is the request's own token) and
\* the fixed string the handler returns for it
HandshakeReq(state) ==
  CASE state = "WaitTdlibParameters" ->
         [name |-> "setTdlibParameters", extra |-> "h-params", arg |-> "parameters"]
    [] state = "WaitEncryptionKey" ->
         [name |-> "checkDatabaseEncryptionKey", extra |-> "h-key", arg |-> "key"]
    [] state = "WaitPhoneNumber" ->
         [name |-> "setAuthenticationPhoneNumber", extra |-> "h-phone", arg |-> "phone"]
    [] state = "WaitCode" ->
         [name |-> "checkAuthenticationCode", extra |-> "h-code", arg |-> "code"]
    [] state = "WaitPassword" ->
         [name |-> "checkAuthenticationPassword", extra |-> "h-password", arg |-> "password"]

\* the position handle_auth_state reaches first for a state
AuthArm(state) ==
  IF state \in TodoStates THEN "panicked"
  ELSE IF state = "Ready" THEN "send_ready"
  ELSE IF state \in HandlerStates THEN "handler"
  ELSE "call"

\* an auth task that takes the newest queued state first
AuthRecvNewest(i) ==
  /\ authPc[i] = "idle"
  /\ auth_q[i] /= << >>
  /\ auth_q' = [auth_q EXCEPT ![i] = SubSeq(@, 1, Len(@) - 1)]
  /\ authCur' = [authCur EXCEPT ![i] = auth_q[i][Len(auth_q[i])]]
  /\ authPc' = [authPc EXCEPT ![i] = AuthArm(auth_q[i][Len(auth_q[i])])]
  /\ IF AuthArm(auth_q[i][Len(auth_q[i])]) = "call"
       THEN CallSubscribe(AuthCall(i), HandshakeReq(auth_q[i][Len(auth_q[i])]))
       ELSE UNCHANGED callVars
  /\ UNCHANGED << stop_flag, cfgVars, loopVars, ready_q, startPc, readySeen, wfa, auth_state_q, sink >>

\* while let Some(auth_state) = auth_rx.recv().await { handle_auth_state(..) }
AuthRecv(i) ==
  /\ authPc[i] = "idle"
  /\ auth_q[i] /= << >>
  /\ auth_q' = [auth_q EXCEPT ![i] = Tail(@)]
  /\ authCur' = [authCur EXCEPT ![i] = Head(auth_q[i])]
  /\ authPc' = [authPc EXCEPT ![i] = AuthArm(Head(auth_q[i]))]
  /\ IF AuthArm(Head(auth_q[i])) = "call"
       THEN CallSubscribe(AuthCall(i), HandshakeReq(Head(auth_q[i])))
       ELSE UNCHANGED callVars
  /\ UNCHANGED << stop_flag, cfgVars, loopVars, ready_q, startPc, readySeen, wfa, auth_state_q, sink >>

\* auth_rx.recv() returns None: the dispatch task ended and dropped auth_sx
AuthClosed(i) ==
  /\ authPc[i] = "idle"
  /\ auth_q[i] = << >>
  /\ loopPc[i] \in {"done", "panicked"}
  /\ authPc' = [authPc EXCEPT ![i] = "done"]
  /\ UNCHANGED << stop_flag, cfgVars, callVars, loopVars, auth_q, authCur,
                  ready_q, startPc, readySeen, wfa, auth_state_q, sink >>

\* auth_state_handler.handle_*(..).await returned the secret; the api call begins
AuthHandler(i) ==
  /\ authPc[i] = "handler"
  /\ authPc' = [authPc EXCEPT ![i] = "call"]
  /\ CallSubscribe(AuthCall(i), HandshakeReq(authCur[i]))
  /\ UNCHANGED << stop_flag, cfgVars, loopVars, auth_q, authCur, ready_q,
                  startPc, readySeen, wfa, auth_state_q, sink >>

\* the send inside the auth task's api call
AuthSend(i, ok) ==
  /\ authPc[i] = "call"
  /\ CallSend(AuthCall(i), ok)
  /\ UNCHANGED << stop_flag, cfgVars, loopVars, authVars, sink >>

\* api.<request>(..).await?; Ok(())  and the auth task's .unwrap()
AuthCallDone(i) ==
  /\ authPc[i] = "call"
  /\ callPc[AuthCall(i)] = "done"
  /\ IF callRes[AuthCall(i)].kind = "Ok"
       THEN /\ authPc' = [authPc EXCEPT ![i] = "idle"]
            /\ callPc' = [callPc EXCEPT ![AuthCall(i)] = "idle"]
       ELSE /\ authPc' = [authPc EXCEPT ![i] = "panicked"]
            /\ UNCHANGED callPc
  /\ UNCHANGED << stop_flag, cfgVars, channels, signal, fulfilled, callReq,
                  callRes, sent, replies, unsubbed, loopVars, auth_q, authCur, ready_q,
                  startPc, readySeen, wfa, auth_state_q, sink >>

\* Ready arm (telegram-tdlib): sender.send(()).await.unwrap(); waits while
\* the channel is full, panics once start() has returned and dropped rx
SendReady(i) ==
  /\ IF startPc[i] /= "waiting"
       THEN /\ authPc' = [authPc EXCEPT ![i] = "panicked"]
            /\ UNCHANGED ready_q
       ELSE /\ Len(ready_q[i]) < ReadyChanCap
            /\ ready_q' = [ready_q EXCEPT ![i] = Append(@, "()")]
            /\ authPc' = [authPc EXCEPT ![i] = "idle"]
  /\ UNCHANGED auth_state_q

\* Ready transition (rust-tdlib): success is signalled to the waiter (spec
\* 4.3) as ClientState::Opened on the client's auth state channel, whose
\* receiver the client keeps
PublishOpened(i) ==
  /\ Len(auth_state_q) < AuthStateChanCap
  /\ auth_state_q' = Append(auth_state_q, "Opened")
  /\ authPc' = [authPc EXCEPT ![i] = "idle"]
  /\ UNCHANGED ready_q

\* AuthorizationState::Ready(_) => ..
AuthSendReady(i) ==
  /\ authPc[i] = "send_ready"
  /\ IF tmpl = "telegram-tdlib" THEN SendReady(i) ELSE PublishOpened(i)
  /\ readySeen' = [readySeen EXCEPT ![i] = @ + 1]
  /\ UNCHANGED << stop_flag, cfgVars, callVars, loopVars, auth_q, authCur,
                  startPc, wfa, sink >>

\* rx.recv().await.unwrap(); Ok(handle): start() returns once Ready was
\* signalled, and rx is dropped with what it still holds
StartReady(i) ==
  /\ startPc[i] = "waiting"
  /\ ready_q[i] /= << >>
  /\ startPc' = [startPc EXCEPT ![i] = "returned"]
  /\ ready_q' = [ready_q EXCEPT ![i] = << >>]
  /\ UNCHANGED << stop_flag, cfgVars, callVars, loopVars, auth_q, authPc,
                  authCur, readySeen, wfa, auth_state_q, sink >>

\* rx.recv() returns None (the auth task ended and dropped sx): unwrap panics
StartFail(i) ==
  /\ startPc[i] = "waiting"
  /\ ready_q[i] = << >>
  /\ authPc[i] \in {"done", "panicked"}
  /\ startPc' = [startPc EXCEPT ![i] = "panicked"]
  /\ UNCHANGED << stop_flag, cfgVars, callVars, loopVars, auth_q, authPc,
                  authCur, ready_q, readySeen, wfa, auth_state_q, sink >>

(* ------------------- Client::wait_for_auth (rust-tdlib) --------------- *)
\* wait_for_auth(): auth_state_receiver is Some; the first recv().await
WfaCall ==
  /\ tmpl = "rust-tdlib"
  /\ wfa.pc = "idle"
  /\ wfa' = [wfa EXCEPT !.pc = "first"]
  /\ UNCHANGED << stop_flag, cfgVars, callVars, loopVars, auth_q, authPc, authCur,
                  ready_q, startPc, readySeen, auth_state_q, sink >>

\* what wait_for_auth returns for the first state it receives
WfaFirstResult(msg) ==
  IF msg = "Closed" THEN [pc |-> "done", ret |-> "Ok(handle)", handle |-> "Closed"]
  ELSE IF msg = "Opened" THEN [pc |-> "second", ret |-> "Ok(handle)", handle |-> "pending"]
  ELSE [pc |-> "done", ret |-> "Err(TdlibError)", handle |-> "none"]

\* if let Some(msg) = recv.recv().await { match msg {..} }  Ok(tokio::spawn(..))
WfaFirst ==
  /\ wfa.pc = "first"
  /\ auth_state_q /= << >>
  /\ wfa' = WfaFirstResult(Head(auth_state_q))
  /\ auth_state_q' = Tail(auth_state_q)
  /\ UNCHANGED << stop_flag, cfgVars, callVars, loopVars, auth_q, authPc, authCur,
                  ready_q, startPc, readySeen, sink >>

\* what the spawned task, the returned handle, resolves to for the next state
WfaSecondResult(msg) ==
  IF msg = "Opened" THEN "Error(received Opened state again)" ELSE msg

\* the spawned task: match recv.recv().await {..}
WfaSecond ==
  /\ wfa.pc = "second"
  /\ auth_state_q /= << >>
  /\ wfa' = [wfa EXCEPT !.pc = "done", !.handle = WfaSecondResult(Head(auth_state_q))]
  /\ auth_state_q' = Tail(auth_state_q)
  /\ UNCHANGED << stop_flag, cfgVars, callVars, loopVars, auth_q, authPc, authCur,
                  ready_q, startPc, readySeen, sink >>

\* wait_for_auth() once more, after an earlier invocation has come to its
\* end: auth_state_receiver is still Some, nothing ever takes it
WfaCallAgain ==
  /\ tmpl = "rust-tdlib"
  /\ wfa.pc = "done"
  /\ wfa' = [pc |-> "first", ret |-> "none", handle |-> "none"]
  /\ UNCHANGED << stop_flag, cfgVars, callVars, loopVars, auth_q, authPc, authCur,
                  ready_q, startPc, readySeen, auth_state_q, sink >>

\* the Auth State Machine reports a ClientState to the waiter on
\* auth_state_sender (spec 4.3, 4.4)
AuthStatePublish(msg) ==
  /\ tmpl = "rust-tdlib"
  /\ Len(auth_state_q) < AuthStateChanCap
  /\ auth_state_q' = Append(auth_state_q, msg)
  /\ UNCHANGED << stop_flag, cfgVars, callVars, loopVars, auth_q, authPc, authCur,
                  ready_q, startPc, readySeen, wfa, sink >>

(* ---------------------- tdlib (the Transport) ------------------------- *)
AuthFrame(state) == [type |-> "updateAuthorizationState", extra |-> NoExtra, arg |-> state]
OkFrame(t) == [type |-> "ok", extra |-> t, arg |-> "ok"]

\* what receive() may yield to a client whose calls carry the tokens X and Y
Frames ==
  {[type |-> "chats", extra |-> t, arg |-> "chat_ids"] : t \in Tokens}
  \cup {[type |-> "error", extra |-> "X", arg |-> "m1"]}
  \cup {[type |-> "updateOption", extra |-> NoExtra, arg |-> "option"]}
  \cup {[type |-> "garbage", extra |-> NoExtra, arg |-> "?"]}

\* receive() yields any frame
TdAny(i) ==
  /\ nrecv < MaxFrames
  /\ \E json \in Frames : LoopReceive(i, json)
  /\ UNCHANGED << unsol, fed, replies >>

Next ==
  \/ \E c \in UserCalls : \E req \in UserReqs : UserCall(c, req)
  \/ \E c \in UserCalls : \E ok \in BOOLEAN : UserSend(c, ok)
  \/ \E c \in UserCalls : Resume(c)
  \/ \E c \in UserCalls : UserCancel(c)
  \/ Start(1)
  \/ LoopCheck(1)
  \/ LoopPoll(1)
  \/ LoopTimeout(1)
  \/ TdAny(1)
  \/ LoopRoute(1)
  \/ LoopSendUpd(1)
  \/ SinkRecv

Spec == Init /\ [][Next]_vars

(* --------- one call against every kind of response (round trip) ------- *)
CallFrames ==
  {[type |-> "chats", extra |-> "X", arg |-> ids] : ids \in {"chat_ids_1", "chat_ids_2"}}
  \cup {[type |-> "error", extra |-> "X", arg |-> m] : m \in {"m1", "m2"}}
  \cup {OkFrame("X")}
  \cup {[type |-> "chats", extra |-> "Y", arg |-> "chat_ids_1"]}
  \cup {[type |-> "updateOption", extra |-> NoExtra, arg |-> "option"]}

TdCall(i) ==
  /\ nrecv < MaxFrames
  /\ \E json \in CallFrames : LoopReceive(i, json)
  /\ UNCHANGED << unsol, fed, replies >>

NextCall ==
  \/ \E req \in {SearchPublicChats("X"), SearchPublicChats(NoExtra)} : UserCall(1, req)
  \/ \E ok \in BOOLEAN : UserSend(1, ok)
  \/ Resume(1)
  \/ UserCancel(1)
  \/ Start(1)
  \/ LoopCheck(1)
  \/ LoopPoll(1)
  \/ LoopTimeout(1)
  \/ TdCall(1)
  \/ LoopRoute(1)
  \/ LoopSendUpd(1)
  \/ SinkRecv

SpecCall == Init /\ [][NextCall]_vars

(* ------------- the authorization handshake, start to Ready ------------ *)
\* the authorization states tdlib reports during a first login
HandshakeScript == << "WaitTdlibParameters", "WaitEncryptionKey", "WaitPhoneNumber",
                      "WaitCode", "Ready" >>

\* receive() yields the next authorization state of the script
TdScript(i) ==
  /\ unsol < Len(HandshakeScript)
  /\ LoopReceive(i, AuthFrame(HandshakeScript[unsol + 1]))
  /\ unsol' = unsol + 1
  /\ UNCHANGED << fed, replies >>

\* receive() yields tdlib's ok for a request it was sent
TdReply(i) ==
  /\ \E t \in replies :
       /\ LoopReceive(i, OkFrame(t))
       /\ replies' = replies \ {t}
  /\ UNCHANGED << unsol, fed >>

NextHandshake ==
  \/ Start(1)
  \/ LoopCheck(1)
  \/ LoopPoll(1)
  \/ LoopTimeout(1)
  \/ TdScript(1)
  \/ TdReply(1)
  \/ LoopRoute(1)
  \/ LoopSendAuth(1)
  \/ AuthRecv(1)
  \/ AuthHandler(1)
  \/ AuthSend(1, TRUE)
  \/ Resume(AuthCall(1))
  \/ AuthCallDone(1)
  \/ AuthSendReady(1)
  \/ StartReady(1)
  \/ WfaCall
  \/ WfaFirst

\* the tasks tokio runs: the dispatch task, the auth task, start()'s wait and
\* the caller of wait_for_auth
LoopTask(i) ==
  LoopCheck(i) \/ LoopPoll(i) \/ LoopTimeout(i) \/ LoopRoute(i) \/ LoopSendAuth(i)
AuthTask(i) ==
  \/ AuthRecv(i) \/ AuthHandler(i) \/ AuthSend(i, TRUE)
  \/ Resume(AuthCall(i)) \/ AuthCallDone(i) \/ AuthSendReady(i)
WaitTask == StartReady(1) \/ WfaCall \/ WfaFirst

\* every task that can run is scheduled, and tdlib, polled again and again,
\* does report the next state and does answer each request
SpecHandshake ==
  /\ Init /\ [][NextHandshake]_vars
  /\ WF_vars(Start(1)) /\ WF_vars(LoopTask(1)) /\ WF_vars(AuthTask(1)) /\ WF_vars(WaitTask)
  /\ SF_vars(TdScript(1)) /\ SF_vars(TdReply(1))

(* --------- authorization updates in any order, Ready repeated --------- *)
\* the authorization states fed: Ready, one that asks the handler, and one
\* whose arm is todo!()
AuthFed == {"Ready", "WaitCode", "Closed"}

\* receive() yields an authorization update
TdAuth(i) ==
  /\ unsol < MaxFrames
  /\ \E state \in AuthFed : LoopReceive(i, AuthFrame(state))
  /\ unsol' = unsol + 1
  /\ UNCHANGED << fed, replies >>

NextAuth ==
  \/ Start(1)
  \/ LoopCheck(1)
  \/ LoopPoll(1)
  \/ LoopTimeout(1)
  \/ TdAuth(1)
  \/ TdReply(1)
  \/ LoopRoute(1)
  \/ LoopSendAuth(1)
  \/ AuthRecv(1)
  \/ AuthHandler(1)
  \/ \E ok \in BOOLEAN : AuthSend(1, ok)
  \/ Resume(AuthCall(1))
  \/ AuthCallDone(1)
  \/ AuthSendReady(1)
  \/ StartReady(1)
  \/ StartFail(1)
  \/ WfaCall
  \/ WfaFirst
  \/ WfaSecond

SpecAuth == Init /\ [][NextAuth]_vars

(* ------------- lifecycle: start, start again, stop -------------------- *)
\* a response to the call in flight and an update
LifeFrames ==
  {[type |-> "chats", extra |-> "X", arg |-> "chat_ids"],
   [type |-> "updateOption", extra |-> NoExtra, arg |-> "option"]}

TdLife(i) ==
  /\ nrecv < MaxFrames
  /\ \E json \in LifeFrames : LoopReceive(i, json)
  /\ UNCHANGED << unsol, fed, replies >>

\* start() on the client and on its clones (they share stop_flag and the
\* tdlib instance), one call by a user, stop()
NextLife ==
  \/ \E i \in Starts : Start(i)
  \/ Stop
  \/ \E i \in Starts : LoopCheck(i)
  \/ \E i \in Starts : LoopPoll(i)
  \/ \E i \in Starts : LoopTimeout(i)
  \/ \E i \in Starts : TdLife(i)
  \/ \E i \in Starts : LoopRoute(i)
  \/ \E i \in Starts : LoopSendUpd(i)
  \/ SinkRecv
  \/ UserCall(1, SearchPublicChats("X"))
  \/ UserSend(1, TRUE)
  \/ Resume(1)

SpecLife == Init /\ [][NextLife]_vars

(* ------------- a frame that does not decode, during the handshake ----- *)
\* receive() yields the first authorization update, Ready, or bytes that are
\* no TdType
DecodeFrames ==
  {AuthFrame("WaitTdlibParameters"), AuthFrame("Ready"),
   [type |-> "garbage", extra |-> NoExtra, arg |-> "?"]}

TdDecode(i) ==
  /\ nrecv < MaxFrames
  /\ \E json \in DecodeFrames : LoopReceive(i, json)
  /\ UNCHANGED << unsol, fed, replies >>

\* start() on the caller's side: the wait on rx
StartWait(i) == StartReady(i) \/ StartFail(i)

NextDecode ==
  \/ Start(1)
  \/ LoopCheck(1)
  \/ LoopPoll(1)
  \/ LoopTimeout(1)
  \/ TdDecode(1)
  \/ TdReply(1)
  \/ LoopRoute(1)
  \/ LoopSendAuth(1)
  \/ AuthRecv(1)
  \/ AuthSend(1, TRUE)
  \/ Resume(AuthCall(1))
  \/ AuthCallDone(1)
  \/ AuthSendReady(1)
  \/ AuthClosed(1)
  \/ StartReady(1)
  \/ StartFail(1)

\* every task that can run is scheduled
SpecDecode ==
  /\ Init /\ [][NextDecode]_vars
  /\ WF_vars(Start(1)) /\ WF_vars(LoopTask(1))
  /\ WF_vars(AuthTask(1) \/ AuthClosed(1)) /\ WF_vars(StartWait(1))

(* ------- unsupported states, lifecycle states and the ready wait ------ *)
\* the authorization states fed: those of AuthFed and one that is unsupported
StatesFed == AuthFed \cup {"WaitRegistration"}

TdState(i) ==
  /\ unsol < MaxFrames
  /\ \E state \in StatesFed : LoopReceive(i, AuthFrame(state))
  /\ unsol' = unsol + 1
  /\ UNCHANGED << fed, replies >>

\* the ClientState values of the auth state channel
ClientStates == {"Opened", "Closed", "Error"}

\* a state is reported while few are queued
Report(msg) ==
  /\ Len(auth_state_q) < MaxFrames
  /\ AuthStatePublish(msg)

NextStates ==
  \/ Start(1)
  \/ LoopCheck(1)
  \/ LoopPoll(1)
  \/ LoopTimeout(1)
  \/ TdState(1)
  \/ TdReply(1)
  \/ LoopRoute(1)
  \/ LoopSendAuth(1)
  \/ AuthRecv(1)
  \/ AuthHandler(1)
  \/ AuthSend(1, TRUE)
  \/ Resume(AuthCall(1))
  \/ AuthCallDone(1)
  \/ AuthSendReady(1)
  \/ StartReady(1)
  \/ StartFail(1)
  \/ \E msg \in ClientStates : Report(msg)
  \/ WfaCall
  \/ WfaFirst
  \/ WfaSecond
  \/ WfaCallAgain

SpecStates == Init /\ [][NextStates]_vars

(* ------------------ ClientBuilder (rust-tdlib) ------------------------ *)
\* with_updates_sender(sender)
WithUpdatesSender ==
  /\ builder.result = "none"
  /\ builder' = [builder EXCEPT !.updates_sender = TRUE]
  /\ UNCHANGED << stop_flag, updates_sender, tmpl, callVars, loopVars, authVars, sink >>

\* with_tdlib_parameters(parameters)
WithTdlibParameters ==
  /\ builder.result = "none"
  /\ builder' = [builder EXCEPT !.tdlib_parameters = TRUE]
  /\ UNCHANGED << stop_flag, updates_sender, tmpl, callVars, loopVars, authVars, sink >>

\* a build() that hands the parameters on without looking at them
BuildResultUnchecked(b) == "Ok(client)"

\* build(): if self.tdlib_parameters.is_none() { return Err(BadRequest) }; Ok(client)
BuildResult(b) ==
  IF b.tdlib_parameters THEN "Ok(client)" ELSE "Err(BadRequest)"

\* build(self): consumes the builder; the client gets the builder's updates_sender
Build ==
  /\ builder.result = "none"
  /\ builder' = [builder EXCEPT !.result = BuildResult(builder)]
  /\ updates_sender' =
       IF BuildResult(builder) = "Ok(client)" THEN builder.updates_sender
       ELSE updates_sender
  /\ UNCHANGED << stop_flag, tmpl, callVars, loopVars, authVars, sink >>

\* what can be done with the client build() returned
ClientUse ==
  /\ builder.result = "Ok(client)"
  /\ NextCall

NextBuild ==
  \/ WithUpdatesSender
  \/ WithTdlibParameters
  \/ Build
  \/ ClientUse

\* a rust-tdlib client comes from its builder: there is none before build()
InitBuild ==
  /\ Init
  /\ tmpl = "rust-tdlib"
  /\ updates_sender = FALSE

SpecBuild == InitBuild /\ [][NextBuild]_vars

(* ------------- updates of both kinds, in any order -------------------- *)
\* authorization states whose arms send a request, and two updates the
\* owner can tell apart
OrderFrames ==
  {AuthFrame(state) : state \in {"WaitPhoneNumber", "WaitCode", "WaitPassword"}}
  \cup {[type |-> "updateOption", extra |-> NoExtra, arg |-> o] : o \in {"o1", "o2"}}

\* receive() yields an update; the order is kept in fed
TdOrder(i) ==
  /\ Len(fed) <= MaxFrames
  /\ \E json \in OrderFrames :
       /\ LoopReceive(i, json)
       /\ fed' = Append(fed, json)
  /\ UNCHANGED << unsol, replies >>

NextOrder ==
  \/ Start(1)
  \/ LoopCheck(1)
  \/ LoopPoll(1)
  \/ LoopTimeout(1)
  \/ TdOrder(1)
  \/ TdReply(1)
  \/ LoopRoute(1)
  \/ LoopSendAuth(1)
  \/ LoopSendUpd(1)
  \/ SinkRecv
  \/ AuthRecv(1)
  \/ AuthHandler(1)
  \/ AuthSend(1, TRUE)
  \/ Resume(AuthCall(1))
  \/ AuthCallDone(1)

SpecOrder == Init /\ [][NextOrder]_vars

(* ------------- calls racing the dispatch task for their answers ------ *)
\* TDLib's answer to searchPublicChats, carrying the request's @extra
ChatsFrame(t) == [type |-> "chats", extra |-> t, arg |-> "chat_ids"]

\* receive() yields the answer to a request that was handed to send
TdAnswer(i) ==
  /\ \E t \in replies :
       /\ LoopReceive(i, ChatsFrame(t))
       /\ replies' = replies \ {t}
  /\ UNCHANGED << unsol, fed >>

\* receive() yields an update
TdUpdate(i) ==
  /\ nrecv < MaxFrames
  /\ LoopReceive(i, [type |-> "updateOption", extra |-> NoExtra, arg |-> "option"])
  /\ UNCHANGED << unsol, fed, replies >>

\* each call carries a token of its own
NextAnswer ==
  \/ UserCall(1, SearchPublicChats("X"))
  \/ UserCall(2, SearchPublicChats("Y"))
  \/ \E c \in {1, 2} : UserSend(c, TRUE)
  \/ \E c \in {1, 2} : Resume(c)
  \/ Start(1)
  \/ LoopCheck(1)
  \/ LoopPoll(1)
  \/ LoopTimeout(1)
  \/ TdAnswer(1)
  \/ TdUpdate(1)
  \/ LoopRoute(1)
  \/ LoopSendUpd(1)
  \/ SinkRecv

SpecAnswer == Init /\ [][NextAnswer]_vars

(* ------------------------------ claims -------------------------------- *)
\* the decoded form of the frame a dispatch task holds (raw while "got")
Held(i) == IF loopPc[i] = "got" THEN from_json(loopFrame[i]).t ELSE loopFrame[i]

\* the dispatch task of start i finishes with the frame it holds in this step
Routed(i) == loopPc[i] \in {"got", "send_auth", "send_upd"} /\ loopPc'[i] = "check"

\* C1: for every token, a frame is delivered to at most one pending slot
\* registered under it (no step fulfils two slots, and no token ever has two
\* registrations), and no slot is fulfilled twice: a second frame carrying the
\* token of a fulfilled slot is not delivered to that slot
C1_DeliveredAtMostOnce ==
  /\ [](\A c \in CallIds : fulfilled[c] <= 1)
  /\ [](\A t \in Tokens : Cardinality(Registered(t)) <= 1)
  /\ [][Cardinality({c \in CallIds : fulfilled'[c] > fulfilled[c]}) <= 1]_vars

\* a call's slot holds its frame, unread, and a second frame carrying the same
\* token has been routed to the owner's channel instead
C1_Witness ==
  \E c \in UserCalls :
    /\ callPc[c] = "awaiting"
    /\ fulfilled[c] = 1
    /\ signal[c].st = "ok"
    /\ \E k \in 1 .. Len(sink) : sink[k].extra = callReq[c].extra

\* C2: a frame without a correlation token is never delivered to a pending
\* slot, and when the dispatch loop is through with it, it has been put on the
\* updates channel or on the auth task's queue, whatever the client's
\* configuration (updates sender set or not)
C2_TokenlessReachesSinkOrAuth ==
  [][\A i \in Starts :
       (Routed(i) /\ Held(i).extra = NoExtra)
       => /\ fulfilled' = fulfilled
          /\ \/ sink' = Append(sink, Held(i))
             \/ auth_q'[i] = Append(auth_q[i], Held(i).arg)]_vars

\* C3: a frame that receive() yields after unsubscribe(t), carrying t while
\* nothing is registered under t, ends on the updates channel: the loop does
\* not panic on it and does not drop it
C3_StaleFrameReachesSink ==
  [][\A i \in Starts :
       ( /\ loopPc[i] \in {"got", "send_upd"}
         /\ stale[i]
         /\ Registered(loopFrame[i].extra) = {}
         /\ loopPc'[i] \notin {"got", "send_upd"} )
       => /\ loopPc'[i] = "check"
          /\ sink' = Append(sink, Held(i))]_vars

\* C7: once a call has ended (returned, or was dropped by its caller), the
\* registry holds no registration of that call
C7_NoRegistrationAfterCall ==
  \A c \in CallIds :
    callPc[c] \in {"done", "cancelled"} => <<callReq[c].extra, c>> \notin channels

\* the result the round trip promises for a JSON frame with this @type
RoundTrip(type, arg) ==
  IF type = "chats" THEN [kind |-> "Ok", arg |-> arg]
  ELSE IF type = "error" THEN [kind |-> "TdlibError", arg |-> arg]
  ELSE [kind |-> "Internal", arg |-> "receive invalid response"]

\* C6: when the dispatch loop routes a frame whose @extra is the token of a
\* registered call, the frame goes to that call's slot, and the call returns
\* the payload of a frame of the expected type, the remote error with the
\* frame's message for an error frame, and an internal error for any other
\* discriminant
C6_RoundTrip ==
  /\ [][\A i \in Starts : \A c \in UserCalls :
          ( /\ loopPc[i] = "got" /\ loopPc'[i] /= "got"
            /\ <<loopFrame[i].extra, c>> \in channels
            /\ callPc[c] = "awaiting" )
          => /\ signal'[c].st = "ok"
             /\ signal'[c].frame.extra = callReq[c].extra
             /\ RoundTrip(loopFrame[i].type, loopFrame[i].arg)
                  = CallResult(callReq[c].name, signal'[c])]_vars
  /\ [][\A c \in UserCalls :
          (callPc[c] = "awaiting" /\ callPc'[c] = "done" /\ signal[c].st = "ok")
          => \E type \in DOMAIN TypeTag :
               /\ TypeTag[type] = signal[c].frame.type
               /\ callRes'[c] = RoundTrip(type, signal[c].frame.arg)]_vars

\* a call has failed with the remote error carrying the message of its frame
C6_Witness ==
  \E c \in UserCalls :
    /\ callPc[c] = "done"
    /\ callReq[c].extra = "X"
    /\ callRes[c] = [kind |-> "TdlibError", arg |-> "m2"]

\* the four handshake requests, carrying the handler's fixed strings
HandshakeRequests ==
  << [name |-> "setTdlibParameters", arg |-> "parameters"],
     [name |-> "checkDatabaseEncryptionKey", arg |-> "key"],
     [name |-> "setAuthenticationPhoneNumber", arg |-> "phone"],
     [name |-> "checkAuthenticationCode", arg |-> "code"] >>

\* the wait for Ready has completed successfully: start() returned Ok
\* (telegram-tdlib), wait_for_auth returned Ok on Opened (rust-tdlib)
WaitResolved ==
  IF tmpl = "telegram-tdlib" THEN startPc[1] = "returned"
  ELSE wfa.pc = "second" /\ wfa.ret = "Ok(handle)"

\* C4: fed WaitTdlibParameters, WaitEncryptionKey, WaitPhoneNumber, WaitCode,
\* Ready in that order, the client hands the Transport the four handshake
\* requests in the order setTdlibParameters, checkDatabaseEncryptionKey,
\* setAuthenticationPhoneNumber, checkAuthenticationCode and nothing else (at
\* every moment what was sent is a prefix of the four), no task panics, the
\* wait for Ready completes only after all four were sent, and it does complete
C4_HandshakeInOrder ==
  /\ [](/\ Len(sent) <= Len(HandshakeRequests)
        /\ sent = SubSeq(HandshakeRequests, 1, Len(sent)))
  /\ [](/\ "panicked" \notin {loopPc[1], authPc[1], startPc[1]}
        /\ wfa.ret /= "Err(TdlibError)")
  /\ [](WaitResolved => sent = HandshakeRequests)
  /\ <>WaitResolved

\* the script was fed to the end, Ready was handled once and the wait completed
\* with the four requests sent
C4_Witness ==
  /\ unsol = Len(HandshakeScript)
  /\ readySeen[1] = 1
  /\ sent = HandshakeRequests
  /\ WaitResolved

\* C5: once a second Ready has been handled, the wait for Ready has not
\* completed as a success: start() has not returned Ok (telegram-tdlib), and
\* the handle wait_for_auth returned, once resolved, holds Error (rust-tdlib)
C5_SecondReadyIsError ==
  readySeen[1] >= 2 =>
    IF tmpl = "telegram-tdlib"
      THEN startPc[1] /= "returned"
      ELSE wfa.pc = "done" => wfa.handle = "Error(received Opened state again)"

\* C8: at most one dispatch task is inside receive() at any moment, however
\* often start() is invoked on the client and its clones
C8_OneContextInReceive ==
  Cardinality({i \in Starts : loopPc[i] = "receiving"}) <= 1

\* C9: once the stop signal is raised, no dispatch task issues a receive():
\* only a poll that was in progress may still be running, and a task that
\* has terminated stays terminated
C9_NoReceiveAfterStop ==
  [][\A i \in Starts :
       /\ (stop_flag /\ loopPc'[i] = "receiving") => loopPc[i] = "receiving"
       /\ loopPc[i] = "done" => loopPc'[i] = "done"]_vars

\* C10: once the stop signal is raised and the dispatch tasks have terminated
\* on it, no call is left suspended on a slot nothing was delivered to: it
\* has been resolved as cancelled (from such a state no step resolves it)
C10_AwaitingCallsCancelled ==
  ( /\ stop_flag
    /\ \E i \in Starts : loopPc[i] = "done"
    /\ \A i \in Starts : ~LoopAlive(i) )
  => \A c \in UserCalls : callPc[c] = "awaiting" => signal[c].st /= "pending"

\* C11: a frame that does not decode ends the dispatch task at once (it is
\* not routed, nothing is put on a channel or into a slot for it), a task
\* that ended this way routes nothing and polls no more, and the owner gets to
\* see the failure: its start() fails, or it holds the task's handle
C11_DecodeFailureFailsOwner ==
  /\ [][\A i \in Starts :
          (loopPc[i] = "got" /\ ~from_json(loopFrame[i]).ok /\ loopPc'[i] /= "got")
          => /\ loopPc'[i] = "panicked"
             /\ UNCHANGED << sink, auth_q, signal, channels >>]_vars
  /\ [][\A i \in Starts : loopPc[i] = "panicked" => loopPc'[i] = "panicked"]_vars
  /\ \A i \in {1} :
       (tmpl = "telegram-tdlib" /\ loopPc[i] = "panicked")
         ~> (startPc[i] \in {"returned", "panicked"})

\* C12: a token never has two registrations, and a call whose subscribe was
\* refused with AlreadySubscribed leaves the registration it collided with,
\* and the slot of the caller waiting on it, as they are in every step it takes
C12_RefusedSubscribeLeavesFirst ==
  /\ [](\A t \in Tokens : Cardinality(Registered(t)) <= 1)
  /\ [][\A d \in CallIds :
          ( \/ signal[d].st /= "AlreadySubscribed" /\ signal'[d].st = "AlreadySubscribed"
            \/ signal[d].st = "AlreadySubscribed" /\ callPc'[d] /= callPc[d] )
          => \A c \in CallIds \ {d} :
               /\ signal'[c] = signal[c]
               /\ \A t \in Tokens : <<t, c>> \in channels => <<t, c>> \in channels']_vars

\* C13: when the auth task takes up WaitRegistration it sends no request and
\* starts no call for it, and the failure is reported as an error result: the
\* auth task does not panic on it, and a start() that was waiting for Ready
\* neither panics nor returns Ok after it
C13_WaitRegistrationReported ==
  /\ [][\A i \in Starts :
          (authCur'[i] = "WaitRegistration" /\ authPc'[i] /= authPc[i])
          => /\ sent' = sent
             /\ callPc'[AuthCall(i)] = callPc[AuthCall(i)]
             /\ authPc'[i] /= "panicked"]_vars
  /\ [][\A i \in Starts :
          (authCur[i] = "WaitRegistration" /\ startPc[i] = "waiting")
          => startPc'[i] = "waiting"]_vars

\* C14: the wait for Ready completes as a success when the first state it
\* receives is Opened, as an error when it is Error, and with Closed when it
\* is Closed; and a client's wait resolves once only: after an invocation has
\* produced its result, no later invocation waits on the channel again
C14_WaitResolvesOnce ==
  /\ [][(wfa.pc = "first" /\ wfa'.pc /= "first")
        => /\ Head(auth_state_q) = "Opened" =>
                wfa'.ret = "Ok(handle)" /\ wfa'.handle = "pending"
           /\ Head(auth_state_q) = "Error" => wfa'.ret = "Err(TdlibError)"
           /\ Head(auth_state_q) = "Closed" => wfa'.handle = "Closed"]_vars
  /\ [][wfa.ret /= "none" => wfa'.pc /= "first"]_vars

\* C19: when the auth task takes up Closed, Closing or LoggingOut it sends no
\* request and starts no call, and it goes on consuming: it is back at its
\* queue, it has not ended
C19_LifecycleStatesKeepConsumer ==
  [][\A i \in Starts :
       (authCur'[i] \in {"Closed", "Closing", "LoggingOut"} /\ authPc'[i] /= authPc[i])
       => /\ sent' = sent
          /\ callPc'[AuthCall(i)] = callPc[AuthCall(i)]
          /\ authPc'[i] = "idle"]_vars

\* C15: build() returns Err(BadRequest) when no tdlib parameters were set and
\* Ok(client) when they were; unless it returned Ok there is no client, so
\* nothing was started, called or sent
C15_BuildNeedsParameters ==
  /\ [][(builder.result = "none" /\ builder'.result /= "none")
        => builder'.result =
             IF builder.tdlib_parameters THEN "Ok(client)" ELSE "Err(BadRequest)"]_vars
  /\ [](builder.result /= "Ok(client)"
        => /\ \A i \in Starts : startPc[i] = "none"
           /\ \A c \in CallIds : callPc[c] = "idle"
           /\ sent = << >>
           /\ ~updates_sender)

\* build() was called on a builder that was given an updates sender and no
\* parameters, and refused
C15_Witness ==
  /\ builder.result = "Err(BadRequest)"
  /\ builder.updates_sender
  /\ ~builder.tdlib_parameters

\* ---- the auth channel filled while a transition is in progress ----

\* TDLib goes on reporting the state the client is in
FloodStates == {"WaitPassword"}

\* receive() yields one more authorization update; enough of them to fill the
\* auth channel behind the state in hand
TdFlood(i) ==
  /\ unsol < AuthChanCap + MaxFrames
  /\ \E state \in FloodStates : LoopReceive(i, AuthFrame(state))
  /\ unsol' = unsol + 1
  /\ UNCHANGED << fed, replies >>

NextFlood ==
  \/ Start(1)
  \/ LoopCheck(1)
  \/ LoopPoll(1)
  \/ LoopTimeout(1)
  \/ TdFlood(1)
  \/ TdReply(1)
  \/ LoopRoute(1)
  \/ LoopSendAuth(1)
  \/ AuthRecv(1)
  \/ AuthHandler(1)
  \/ AuthSend(1, TRUE)
  \/ Resume(AuthCall(1))
  \/ AuthCallDone(1)

SpecFlood == Init /\ [][NextFlood]_vars

\* the dispatch task waits in auth_sx.send(..).await for room in the channel
LoopBlockedOnAuth ==
  /\ loopPc[1] = "send_auth"
  /\ Len(auth_q[1]) = AuthChanCap

\* C17: while the auth task awaits the response to its handshake request and
\* that response is still to be yielded by receive(), the dispatch task is not
\* held up by the auth channel, however many authorization updates arrived in
\* the meantime: it goes on polling, so the response can be delivered
C17_ResponsePolledDuringTransition ==
  (authPc[1] = "call" /\ callPc[AuthCall(1)] = "awaiting" /\ replies /= {})
    => ~LoopBlockedOnAuth

\* the authorization states receive() has yielded, in order
AuthFedStates ==
  LET a == SelectSeq(fed, LAMBDA f : f.type = "updateAuthorizationState")
  IN  [k \in 1 .. Len(a) |-> a[k].arg]

\* 1 while the dispatch task holds an authorization update it has not queued yet
AuthInLoop ==
  IF /\ loopPc[1] \in {"got", "send_auth"}
     /\ loopFrame[1].type \in {"updateAuthorizationState", "UpdateAuthorizationState"}
    THEN 1 ELSE 0

\* how many authorization states the auth task has taken up
Taken == Len(AuthFedStates) - AuthInLoop - Len(auth_q[1])

\* C16: the auth task takes the states up in the order receive() yielded them
\* (the state in hand is the Taken-th one yielded), one at a time (at most one
\* handshake request is unanswered at any moment), and the requests reach the
\* Transport in the order of the states that caused them: what was sent is
\* the requests of the first states yielded, all but possibly the one in hand
C16_AuthStatesInOrderOneAtATime ==
  /\ Taken >= 0
  /\ Taken > 0 => authCur[1] = AuthFedStates[Taken]
  /\ Cardinality(replies) <= 1
  /\ Len(sent) \in {Taken - 1, Taken}
  /\ \A k \in 1 .. Len(sent) :
       sent[k] = [name |-> HandshakeReq(AuthFedStates[k]).name,
                  arg |-> HandshakeReq(AuthFedStates[k]).arg]

\* three states were yielded, the first two distinct; the requests of both were
\* sent and the third state waits in the queue
C16_Witness ==
  /\ Len(AuthFedStates) = 3
  /\ AuthFedStates[1] /= AuthFedStates[2]
  /\ Taken = 2
  /\ Len(sent) = 2
  /\ Len(auth_q[1]) = 1

EndsWithCallError(d) ==
  /\ callPc[d] = "awaiting"
  /\ signal[d].st \in {"ok", "Cancelled"}
  /\ callPc'[d] = "done"
  /\ callRes'[d].kind \in {"TdlibError", "Internal"}

\* C20: when a call ends with an error of its own, every other call still in
\* flight keeps its registration and its slot as they were, so the frame
\* carrying its token is still delivered to it
C20_CallErrorsAreLocal ==
  [][\A d \in CallIds : EndsWithCallError(d) =>
       \A e \in CallIds \ {d} :
         callPc[e] \in {"subscribed", "awaiting"} =>
           /\ (<< callReq[e].extra, e >> \in channels') = (<< callReq[e].extra, e >> \in channels)
           /\ signal'[e] = signal[e]]_vars

\* C21: a request is handed to send only by a call whose token is already
\* registered; from then until its answer is delivered the registration stays
\* in place; and when the dispatch task routes the answer, it resolves the
\* call's slot with that frame and puts nothing on the updates channel
C21_RegisteredBeforeSend ==
  /\ [][sent' /= sent =>
          \E c \in CallIds :
            /\ callPc[c] = "subscribed" /\ callPc'[c] = "awaiting"
            /\ << callReq[c].extra, c >> \in channels]_vars
  /\ [](\A c \in CallIds :
          (callPc[c] = "awaiting" /\ signal[c].st = "pending")
            => << callReq[c].extra, c >> \in channels)
  /\ [][\A c \in CallIds :
          ( /\ Routed(1)
            /\ callPc[c] = "awaiting" /\ signal[c].st = "pending"
            /\ Held(1).extra = callReq[c].extra )
          => /\ signal'[c] = [st |-> "ok", frame |-> Held(1)]
             /\ sink' = sink]_vars
  /\ [][\A c \in CallIds :
          (loopPc[1] = "got" /\ callPc[c] = "awaiting" /\ signal[c].st = "pending"
           /\ Held(1).extra = callReq[c].extra)
          => loopPc'[1] \in {"got", "check"}]_vars

\* both calls were sent before either answer was polled; call 2's answer came
\* first and call 1 has now been given its own, with nothing on the channel
C21_Witness ==
  /\ callPc[1] = "awaiting" /\ callPc[2] = "awaiting"
  /\ signal[1] = [st |-> "ok", frame |-> from_json(ChatsFrame("X")).t]
  /\ signal[2] = [st |-> "ok", frame |-> from_json(ChatsFrame("Y")).t]
  /\ sink = << >>
  /\ nrecv = 2

\* call d, whose registration was resolved by its answer, resumes from
\* signal.await, runs its trailing unsubscribe and returns
CompletesResolved(d) ==
  /\ callPc[d] = "awaiting"
  /\ signal[d].st = "ok"
  /\ callPc'[d] = "done"

\* C22: when a call whose registration was resolved completes, its trailing
\* unsubscribe leaves in the registry every registration made by another call,
\* also one made since under the same token, and leaves that call's slot
\* pending for its own response
C22_TrailingUnsubscribeSparesLaterCall ==
  [][\A d \in CallIds : CompletesResolved(d) =>
       \A e \in CallIds \ {d} :
         << callReq[e].extra, e >> \in channels =>
           /\ << callReq[e].extra, e >> \in channels'
           /\ signal'[e].st /= "Cancelled"]_vars
====
